---------------------------- MODULE Spec2Model ----------------------------
(* MIDI atom bodies of lv2rs: RawMidiMessage and SystemExclusiveMessage.   *)
(* Bytes are u8 values 0..255; a slice is a sequence of bytes (index 1 of  *)
(* the sequence is index 0 of the Rust slice).                             *)
EXTENDS Integers, Sequences, FiniteSets, TLC

(* ------------------------------ bounds --------------------------------- *)
\* longest byte slice handed to create_ref
MaxLen == 4
\* longest data slice handed to SystemExclusiveMessage::initialize_body
MaxData == 2
\* largest capacity of the writing frame
MaxCap == 4

\* bytes the slices are built from: data bytes, status bytes, both sysex marks
ByteSamples == {0, 64, 127, 128, 144, 240, 245, 247}
\* bytes the system-exclusive payloads are built from
DataSamples == {0, 1, 127, 128}
\* 7-bit field values of the messages written
U7Samples == {0, 64, 100, 127}
\* 14-bit values of the pitch bends written (song positions take every value)
U14Samples == {0, 1, 127, 128, 8192, 16383}

(* -------------------------- bounded integers --------------------------- *)
U3 == 0..7
U4 == 0..15
U7 == 0..127
U14 == 0..16383

\* b & 0b1000_0000 on a u8
TopBit(b) == ((b \div 128) % 2) * 128

(* ---------------------------- status bytes ----------------------------- *)
NOTE_OFF_STATUS == 128
NOTE_ON_STATUS == 144
POLY_KEY_PRESSURE_STATUS == 160
CONTROL_CHANGE_STATUS == 176
PROGRAM_CHANGE_STATUS == 192
CHANNEL_PRESSURE_STATUS == 208
PITCH_BEND_CHANGE_STATUS == 224
START_OF_SYSTEM_EXCLUSIVE_STATUS == 240
TIME_CODE_QUARTER_FRAME_STATUS == 241
SONG_POSITION_POINTER_STATUS == 242
SONG_SELECT_STATUS == 243
TUNE_REQUEST_STATUS == 246
END_OF_SYSTEM_EXCLUSICE_STATUS == 247
TIMING_CLOCK_STATUS == 248
START_STATUS == 250
CONTINUE_STATUS == 251
STOP_STATUS == 252
ACTIVE_SENSING_STATUS == 254
SYSTEM_RESET_STATUS == 255

(* ------------------------------ messages ------------------------------- *)
\* the MidiMessage values written by the model: every channel, sampled 7-bit
\* fields, every 3-bit type and 4-bit value, every 14-bit song position
MidiMessage ==
    [type : {"NoteOff", "NoteOn"}, channel : U4, note : U7Samples, velocity : U7Samples]
    \cup [type : {"PolyKeyPressure", "ChannelPressure"}, channel : U4, pressure : U7Samples]
    \cup [type : {"ControlChange"}, channel : U4,
          control_number : U7Samples, control_value : U7Samples]
    \cup [type : {"ProgramChange"}, channel : U4, program_number : U7Samples]
    \cup [type : {"PitchBendChange"}, channel : U4, value : U14Samples]
    \cup [type : {"TimeCodeQuarterFrame"}, message_type : U3, value : U4]
    \cup [type : {"SongPositionPointer"}, position : U14]
    \cup [type : {"SongSelect"}, song : U7Samples]
    \cup [type : {"TuneRequest", "TimingClock", "Start", "Continue", "Stop",
                  "ActiveSensing", "SystemReset"}]

\* no message yet, and the failure value of try_from
NoMessage == [type |-> "none"]
TryFromError == [type |-> "Err"]

(* --------------------------- the writing frame -------------------------- *)
\* A frame appends to buf up to cap bytes; log records every append asked of
\* it, with the piece and whether it was taken.
NewFrame(cap) == [buf |-> <<>>, cap |-> cap, log |-> <<>>, res |-> "Ok"]

write_raw(w, piece) ==
    IF Len(w.buf) + Len(piece) <= w.cap
    THEN [w EXCEPT !.buf = @ \o piece,
                   !.log = Append(@, [piece |-> piece, ok |-> TRUE]),
                   !.res = "Ok"]
    ELSE [w EXCEPT !.log = Append(@, [piece |-> piece, ok |-> FALSE]),
                   !.res = "Err"]

write_sized(w, byte) == write_raw(w, <<byte>>)

\* `w?; next`: an Err of w is returned at once, otherwise next, the rest of
\* the function run on w, is the result
Try(w, next) == IF w.res = "Err" THEN w ELSE next

(* ----------------------------- field writers ---------------------------- *)
write_channel_status(writer, status, channel) ==
    LET sum == (status + channel) % 256
    IN  write_sized(writer, sum)

write_data(writer, data) == write_sized(writer, data)

\* write_u14_data writing the msb before the lsb
write_u14_data_msb_first(writer, data) ==
    LET msb == (data \div 128) % 128
        lsb == data % 128
        w1 == write_sized(writer, msb)
    IN  Try(w1, write_sized(w1, lsb))

write_u14_data(writer, data) ==
    LET msb == (data \div 128) % 128
        lsb == data % 128
        w1 == write_sized(writer, lsb)
    IN  Try(w1, write_sized(w1, msb))

\* the quarter frame byte with the type shifted by 3 bits
QuarterFrameByte_shift3(message_type, value) ==
    (value + ((message_type * 8) % 256)) % 256

\* value + (message_type << 4) in u8 arithmetic
QuarterFrameByte(message_type, value) ==
    (value + ((message_type * 16) % 256)) % 256

(* ------------------------ RawMidiMessage: writing ----------------------- *)
ChannelStatus(type) ==
    CASE type = "NoteOff" -> NOTE_OFF_STATUS
      [] type = "NoteOn" -> NOTE_ON_STATUS
      [] type = "PolyKeyPressure" -> POLY_KEY_PRESSURE_STATUS
      [] type = "ControlChange" -> CONTROL_CHANGE_STATUS
      [] type = "ProgramChange" -> PROGRAM_CHANGE_STATUS
      [] type = "ChannelPressure" -> CHANNEL_PRESSURE_STATUS
      [] type = "PitchBendChange" -> PITCH_BEND_CHANGE_STATUS

SystemStatus(type) ==
    CASE type = "TimeCodeQuarterFrame" -> TIME_CODE_QUARTER_FRAME_STATUS
      [] type = "SongPositionPointer" -> SONG_POSITION_POINTER_STATUS
      [] type = "SongSelect" -> SONG_SELECT_STATUS
      [] type = "TuneRequest" -> TUNE_REQUEST_STATUS
      [] type = "TimingClock" -> TIMING_CLOCK_STATUS
      [] type = "Start" -> START_STATUS
      [] type = "Continue" -> CONTINUE_STATUS
      [] type = "Stop" -> STOP_STATUS
      [] type = "ActiveSensing" -> ACTIVE_SENSING_STATUS
      [] type = "SystemReset" -> SYSTEM_RESET_STATUS

ChannelVoice == {"NoteOff", "NoteOn", "PolyKeyPressure", "ControlChange",
                 "ProgramChange", "ChannelPressure", "PitchBendChange"}

\* the second and the third append of a message, each after a `?`
Second(st, byte) == Try(st, write_data(st, byte))
Third(nd, byte) == Try(nd, write_data(nd, byte))

RawMidiMessage_initialize_body(writer, message) ==
    LET t == message.type
        st == IF t \in ChannelVoice
              THEN write_channel_status(writer, ChannelStatus(t), message.channel)
              ELSE write_sized(writer, SystemStatus(t))
    IN  CASE t \in {"NoteOff", "NoteOn"} ->
               Third(Second(st, message.note), message.velocity)
          [] t \in {"PolyKeyPressure", "ChannelPressure"} ->
               Second(st, message.pressure)
          [] t = "ControlChange" ->
               Third(Second(st, message.control_number), message.control_value)
          [] t = "ProgramChange" ->
               Second(st, message.program_number)
          [] t = "PitchBendChange" ->
               Try(st, write_u14_data(st, message.value))
          [] t = "TimeCodeQuarterFrame" ->
               Try(st, write_sized(st,
                           QuarterFrameByte(message.message_type, message.value)))
          [] t = "SongPositionPointer" ->
               Try(st, write_u14_data(st, message.position))
          [] t = "SongSelect" ->
               Second(st, message.song)
          [] OTHER -> st

(* ------------------------ RawMidiMessage: reading ----------------------- *)
\* raw_data[i] of the Rust slice: "Panic" marks an index past the end
InBounds(raw_data, i) == i < Len(raw_data)
At(raw_data, i) == raw_data[i + 1]

\* create_ref without the check of the third byte
RawMidiMessage_create_ref_unchecked_third(raw_data) ==
    IF (Len(raw_data) > 3) \/ (Len(raw_data) = 0) THEN "Err"
    ELSE IF TopBit(At(raw_data, 0)) = 0 THEN "Err"
    ELSE IF ~InBounds(raw_data, 1) THEN "Panic"
    ELSE IF (Len(raw_data) >= 2) /\ (TopBit(At(raw_data, 1)) # 0) THEN "Err"
    ELSE IF ~InBounds(raw_data, 2) THEN "Panic"
    ELSE "Ok"

\* The checks of bytes 1 and 2 join the length test and the byte test with
\* the non-short-circuit `&`, so the byte is indexed whatever the length.
RawMidiMessage_create_ref(raw_data) ==
    IF (Len(raw_data) > 3) \/ (Len(raw_data) = 0) THEN "Err"
    ELSE IF TopBit(At(raw_data, 0)) = 0 THEN "Err"
    ELSE IF ~InBounds(raw_data, 1) THEN "Panic"
    ELSE IF (Len(raw_data) >= 2) /\ (TopBit(At(raw_data, 1)) # 0) THEN "Err"
    ELSE IF ~InBounds(raw_data, 2) THEN "Panic"
    ELSE IF (Len(raw_data) = 3) /\ (TopBit(At(raw_data, 2)) # 0) THEN "Err"
    ELSE "Ok"

\* number of bytes of a message with status byte s; 0 when s is in no table
Arity(s) ==
    IF s < 128 THEN 0
    ELSE IF s < START_OF_SYSTEM_EXCLUSIVE_STATUS
    THEN (IF (s \div 16) * 16 \in {POLY_KEY_PRESSURE_STATUS, PROGRAM_CHANGE_STATUS,
                                    CHANNEL_PRESSURE_STATUS}
          THEN 2 ELSE 3)
    ELSE IF s = SONG_POSITION_POINTER_STATUS THEN 3
    ELSE IF s \in {TIME_CODE_QUARTER_FRAME_STATUS, SONG_SELECT_STATUS} THEN 2
    ELSE IF s \in {TUNE_REQUEST_STATUS, TIMING_CLOCK_STATUS, START_STATUS,
                   CONTINUE_STATUS, STOP_STATUS, ACTIVE_SENSING_STATUS,
                   SYSTEM_RESET_STATUS} THEN 1
    ELSE 0

\* MidiMessage::try_from: the status table read backwards
try_from(bytes) ==
    IF Len(bytes) = 0 THEN TryFromError
    ELSE
    LET s == bytes[1]
        base == (s \div 16) * 16
        channel == s % 16
    IN  IF Arity(s) = 0 \/ Len(bytes) # Arity(s) THEN TryFromError
        ELSE IF \E i \in 2..Len(bytes) : bytes[i] > 127 THEN TryFromError
        ELSE IF base = NOTE_OFF_STATUS
        THEN [type |-> "NoteOff", channel |-> channel,
              note |-> bytes[2], velocity |-> bytes[3]]
        ELSE IF base = NOTE_ON_STATUS
        THEN [type |-> "NoteOn", channel |-> channel,
              note |-> bytes[2], velocity |-> bytes[3]]
        ELSE IF base = POLY_KEY_PRESSURE_STATUS
        THEN [type |-> "PolyKeyPressure", channel |-> channel, pressure |-> bytes[2]]
        ELSE IF base = CONTROL_CHANGE_STATUS
        THEN [type |-> "ControlChange", channel |-> channel,
              control_number |-> bytes[2], control_value |-> bytes[3]]
        ELSE IF base = PROGRAM_CHANGE_STATUS
        THEN [type |-> "ProgramChange", channel |-> channel,
              program_number |-> bytes[2]]
        ELSE IF base = CHANNEL_PRESSURE_STATUS
        THEN [type |-> "ChannelPressure", channel |-> channel, pressure |-> bytes[2]]
        ELSE IF base = PITCH_BEND_CHANGE_STATUS
        THEN [type |-> "PitchBendChange", channel |-> channel,
              value |-> bytes[2] + 128 * bytes[3]]
        ELSE IF s = TIME_CODE_QUARTER_FRAME_STATUS
        THEN [type |-> "TimeCodeQuarterFrame",
              message_type |-> bytes[2] \div 16, value |-> bytes[2] % 16]
        ELSE IF s = SONG_POSITION_POINTER_STATUS
        THEN [type |-> "SongPositionPointer", position |-> bytes[2] + 128 * bytes[3]]
        ELSE IF s = SONG_SELECT_STATUS
        THEN [type |-> "SongSelect", song |-> bytes[2]]
        ELSE IF s = TUNE_REQUEST_STATUS THEN [type |-> "TuneRequest"]
        ELSE IF s = TIMING_CLOCK_STATUS THEN [type |-> "TimingClock"]
        ELSE IF s = START_STATUS THEN [type |-> "Start"]
        ELSE IF s = CONTINUE_STATUS THEN [type |-> "Continue"]
        ELSE IF s = STOP_STATUS THEN [type |-> "Stop"]
        ELSE IF s = ACTIVE_SENSING_STATUS THEN [type |-> "ActiveSensing"]
        ELSE [type |-> "SystemReset"]

RawMidiMessage_interpret(self) == try_from(self)

(* -------------------- SystemExclusiveMessage: writing ------------------- *)
\* initialize_body dropping the result of the bulk write instead of returning it
SystemExclusiveMessage_initialize_body_unchecked_bulk(writer, data) ==
    LET w1 == write_sized(writer, START_OF_SYSTEM_EXCLUSIVE_STATUS)
    IN  IF w1.res = "Err" THEN w1
        ELSE write_sized(write_raw(w1, data), END_OF_SYSTEM_EXCLUSICE_STATUS)

SystemExclusiveMessage_initialize_body(writer, data) ==
    LET w1 == write_sized(writer, START_OF_SYSTEM_EXCLUSIVE_STATUS)
        w2 == Try(w1, write_raw(w1, data))
    IN  Try(w2, write_sized(w2, END_OF_SYSTEM_EXCLUSICE_STATUS))

(* -------------------- SystemExclusiveMessage: reading ------------------- *)
\* create_ref without the loop over the interior bytes
SystemExclusiveMessage_create_ref_unchecked_interior(raw_data) ==
    IF Len(raw_data) < 2 THEN "Err"
    ELSE IF (raw_data[1] # START_OF_SYSTEM_EXCLUSIVE_STATUS)
            \/ (raw_data[Len(raw_data)] # END_OF_SYSTEM_EXCLUSICE_STATUS) THEN "Err"
    ELSE "Ok"

SystemExclusiveMessage_create_ref(raw_data) ==
    IF Len(raw_data) < 2 THEN "Err"
    ELSE IF (raw_data[1] # START_OF_SYSTEM_EXCLUSIVE_STATUS)
            \/ (raw_data[Len(raw_data)] # END_OF_SYSTEM_EXCLUSICE_STATUS) THEN "Err"
    ELSE IF \E i \in 2..(Len(raw_data) - 1) : TopBit(raw_data[i]) # 0 THEN "Err"
    ELSE "Ok"

\* get_data returning &data[1..len]
SystemExclusiveMessage_get_data_to_end(self) ==
    IF ~(Len(self) >= 2) THEN [res |-> "Panic"]
    ELSE [res |-> "Ok", data |-> SubSeq(self, 2, Len(self))]

\* assert!(len >= 2), then &data[1..len - 1]
SystemExclusiveMessage_get_data(self) ==
    IF ~(Len(self) >= 2) THEN [res |-> "Panic"]
    ELSE [res |-> "Ok", data |-> SubSeq(self, 2, Len(self) - 1)]

(* ------------------------------ the state ------------------------------- *)
VARIABLES
    body,         \* atom body being written: "RawMidiMessage",
                  \* "SystemExclusiveMessage", or "none" when only reading
    message,      \* the MidiMessage handed to RawMidiMessage::initialize_body
    data,         \* the slice handed to SystemExclusiveMessage::initialize_body
    writer,       \* the writing frame
    written,      \* result of initialize_body: "none", "Ok", "Err"
    raw_data,     \* the body slice handed to create_ref: {} until there is one
    raw_ref,      \* result of RawMidiMessage::create_ref: "none", "Ok", "Err", "Panic"
    sysex_ref,    \* result of SystemExclusiveMessage::create_ref
    interpreted,  \* result of RawMidiMessage::interpret
    payload       \* result of SystemExclusiveMessage::get_data

vars == <<body, message, data, writer, written, raw_data, raw_ref, sysex_ref,
          interpreted, payload>>

SeqsUpTo(S, n) == UNION {[1..k -> S] : k \in 0..n}
Slices == SeqsUpTo(ByteSamples, MaxLen)
DataSlices == SeqsUpTo(DataSamples, MaxData)
NoPayload == [res |-> "none"]

Unread ==
    /\ raw_ref = "none"
    /\ sysex_ref = "none"
    /\ interpreted = NoMessage
    /\ payload = NoPayload

\* a slice to read, a message to write, or system-exclusive data to write
Init ==
    /\ Unread
    /\ written = "none"
    /\ \/ /\ body = "none"
          /\ message = NoMessage
          /\ data = <<>>
          /\ writer = NewFrame(0)
          /\ raw_data \in {{s} : s \in Slices}
       \/ /\ body = "RawMidiMessage"
          /\ message \in MidiMessage
          /\ data = <<>>
          /\ writer \in {NewFrame(c) : c \in 0..MaxCap}
          /\ raw_data = {}
       \/ /\ body = "SystemExclusiveMessage"
          /\ message = NoMessage
          /\ data \in DataSlices
          /\ writer \in {NewFrame(c) : c \in 0..MaxCap}
          /\ raw_data = {}

Slice == CHOOSE s \in raw_data : TRUE
Panicked == raw_ref = "Panic" \/ payload.res = "Panic"

(* ------------------------------ the steps ------------------------------- *)
WriteRawMidi ==
    /\ body = "RawMidiMessage"
    /\ written = "none"
    /\ writer' = RawMidiMessage_initialize_body(writer, message)
    /\ written' = writer'.res
    /\ UNCHANGED <<body, message, data, raw_data, raw_ref, sysex_ref,
                   interpreted, payload>>

WriteSysEx ==
    /\ body = "SystemExclusiveMessage"
    /\ written = "none"
    /\ writer' = SystemExclusiveMessage_initialize_body(writer, data)
    /\ written' = writer'.res
    /\ UNCHANGED <<body, message, data, raw_data, raw_ref, sysex_ref,
                   interpreted, payload>>

\* the atom hands the bytes written to the reader
ReadBody ==
    /\ written = "Ok"
    /\ raw_data = {}
    /\ raw_data' = {writer.buf}
    /\ UNCHANGED <<body, message, data, writer, written, raw_ref, sysex_ref,
                   interpreted, payload>>

CreateRawRef ==
    /\ raw_data # {}
    /\ raw_ref = "none"
    /\ ~Panicked
    /\ raw_ref' = RawMidiMessage_create_ref(Slice)
    /\ UNCHANGED <<body, message, data, writer, written, raw_data, sysex_ref,
                   interpreted, payload>>

Interpret ==
    /\ raw_ref = "Ok"
    /\ interpreted = NoMessage
    /\ ~Panicked
    /\ interpreted' = RawMidiMessage_interpret(Slice)
    /\ UNCHANGED <<body, message, data, writer, written, raw_data, raw_ref,
                   sysex_ref, payload>>

CreateSysExRef ==
    /\ raw_data # {}
    /\ sysex_ref = "none"
    /\ ~Panicked
    /\ sysex_ref' = SystemExclusiveMessage_create_ref(Slice)
    /\ UNCHANGED <<body, message, data, writer, written, raw_data, raw_ref,
                   interpreted, payload>>

GetData ==
    /\ sysex_ref = "Ok"
    /\ payload = NoPayload
    /\ ~Panicked
    /\ payload' = SystemExclusiveMessage_get_data(Slice)
    /\ UNCHANGED <<body, message, data, writer, written, raw_data, raw_ref,
                   sysex_ref, interpreted>>

Next ==
    \/ WriteRawMidi
    \/ WriteSysEx
    \/ ReadBody
    \/ CreateRawRef
    \/ Interpret
    \/ CreateSysExRef
    \/ GetData

Spec == Init /\ [][Next]_vars

(* ======================= properties of the readers ====================== *)
IsStatus(b) == b >= 128
IsData(b) == b < 128

\* the raw channel message invariant: 1 to 3 bytes, a status byte first,
\* data bytes after it
RawValid(raw) ==
    /\ Len(raw) \in 1..3
    /\ IsStatus(raw[1])
    /\ \A i \in 2..Len(raw) : IsData(raw[i])

\* the raw system-exclusive invariant: 0xF0, data bytes, 0xF7
SysExValid(raw) ==
    /\ Len(raw) >= 2
    /\ raw[1] = 240
    /\ raw[Len(raw)] = 247
    /\ \A i \in 2..(Len(raw) - 1) : IsData(raw[i])

\* C1: for every slice, both create_ref functions end with Ok or Err and
\* never panic or index past the end of the slice.
C1_CreateRefNeverPanics ==
    /\ raw_ref \in {"none", "Ok", "Err"}
    /\ sysex_ref \in {"none", "Ok", "Err"}

\* C2: RawMidiMessage::create_ref returns Ok exactly for the slices of 1 to 3
\* bytes with a status byte first and data bytes after, and Err for all others.
C2_RawCreateRefExact ==
    raw_ref # "none" =>
        raw_ref = (IF RawValid(Slice) THEN "Ok" ELSE "Err")

\* C3: SystemExclusiveMessage::create_ref returns Ok exactly for the slices
\* of at least 2 bytes that start with 0xF0, end with 0xF7 and hold only data
\* bytes in between, Err for all others, and a rejected slice gives no view
\* to read a payload from.
C3_SysExCreateRefExact ==
    /\ sysex_ref # "none" =>
           sysex_ref = (IF SysExValid(Slice) THEN "Ok" ELSE "Err")
    /\ sysex_ref # "Ok" => payload = NoPayload

\* an accepted 4-byte slice was read, and a payload taken from it
C3_Witness ==
    /\ body = "none"
    /\ sysex_ref = "Ok"
    /\ Len(Slice) = 4
    /\ payload.res = "Ok"

\* C10: no slice is accepted by both validators.
C10_NeverBothOk == ~(raw_ref = "Ok" /\ sysex_ref = "Ok")

\* a slice starting with 0xF0 was accepted as a channel message and refused
\* as a system-exclusive message
C10_Witness ==
    /\ raw_ref = "Ok"
    /\ sysex_ref = "Err"
    /\ Slice[1] = 240

(* ======================= properties of the writers ====================== *)
Accepted == {i \in 1..Len(writer.log) : writer.log[i].ok}
Refused == {i \in 1..Len(writer.log) : ~writer.log[i].ok}

RECURSIVE Concat(_)
Concat(pieces) ==
    IF pieces = <<>> THEN <<>> ELSE Head(pieces).piece \o Concat(Tail(pieces))

IsPrefix(p, q) == Len(p) <= Len(q) /\ p = SubSeq(q, 1, Len(p))

\* what initialize_body asks of a frame with room for everything
Unbounded ==
    IF body = "RawMidiMessage"
    THEN RawMidiMessage_initialize_body(NewFrame(3), message)
    ELSE SystemExclusiveMessage_initialize_body(NewFrame(Len(data) + 2), data)

\* C5: for data bytes all below 0x80, SystemExclusiveMessage::initialize_body
\* writes 0xF0, the data, 0xF7 when the frame has room; create_ref accepts
\* what was written and get_data returns the data, its assertion holding.
C5_SysExRoundTrip ==
    (body = "SystemExclusiveMessage" /\ \A i \in 1..Len(data) : IsData(data[i])) =>
        /\ (written # "none" /\ writer.cap >= Len(data) + 2) => written = "Ok"
        /\ written = "Ok" => writer.buf = <<240>> \o data \o <<247>>
        /\ raw_data # {} => Slice = <<240>> \o data \o <<247>>
        /\ sysex_ref # "none" => sysex_ref = "Ok"
        /\ payload # NoPayload => payload = [res |-> "Ok", data |-> data]

\* non-empty data written, read back and returned by get_data
C5_Witness ==
    /\ body = "SystemExclusiveMessage"
    /\ Len(data) = 2
    /\ payload = [res |-> "Ok", data |-> data]

\* the empty data slice written and read back
C5_WitnessEmpty ==
    /\ body = "SystemExclusiveMessage"
    /\ data = <<>>
    /\ payload = [res |-> "Ok", data |-> <<>>]

\* C7: a 14-bit value v is written as two bytes, lsb then msb, both below
\* 128, with lsb + 128 * msb = v; pitch bends 0, 8192 and 16383 on channel
\* 0 are E0 00 00, E0 00 40 and E0 7F 7F, and a song position is F2 lsb msb.
C7_U14LsbThenMsb ==
    (written = "Ok" /\ message.type \in {"PitchBendChange", "SongPositionPointer"}) =>
        LET v == IF message.type = "PitchBendChange"
                 THEN message.value ELSE message.position
            b == writer.buf
        IN  /\ Len(b) = 3
            /\ b[1] = (IF message.type = "PitchBendChange"
                       THEN 224 + message.channel ELSE 242)
            /\ b[2] < 128 /\ b[3] < 128
            /\ b[2] = v % 128 /\ b[3] = v \div 128
            /\ b[2] + 128 * b[3] = v
            /\ (message.type = "PitchBendChange" /\ message.channel = 0) =>
                   /\ v = 0 => b = <<224, 0, 0>>
                   /\ v = 8192 => b = <<224, 0, 64>>
                   /\ v = 16383 => b = <<224, 127, 127>>

\* the centre pitch bend was written
C7_Witness ==
    /\ message = [type |-> "PitchBendChange", channel |-> 0, value |-> 8192]
    /\ written = "Ok"
    /\ writer.buf = <<224, 0, 64>>

\* C8: initialize_body returns Err exactly when an append was refused; a
\* frame with room for everything gives Ok; the refused append is the last
\* one asked (no later append, no retry), the frame holds the pieces before
\* it, a prefix of the full encoding, and after a refused bulk write of a
\* system-exclusive message the frame holds 0xF0 alone.
C8_ErrIffAppendRefused ==
    written # "none" =>
        /\ written = "Err" <=> Refused # {}
        /\ writer.cap >= Len(Unbounded.buf) => written = "Ok"
        /\ Refused \subseteq {Len(writer.log)}
        /\ IsPrefix(writer.log, [i \in 1..Len(Unbounded.log) |->
                                    [Unbounded.log[i] EXCEPT !.ok = (i \in Accepted)]])
        /\ written = "Ok" => Len(writer.log) = Len(Unbounded.log)
        /\ writer.buf = Concat(SubSeq(writer.log, 1, Cardinality(Accepted)))
        /\ IsPrefix(writer.buf, Unbounded.buf)
        /\ (body = "SystemExclusiveMessage" /\ Len(writer.log) = 2 /\ written = "Err")
               => writer.buf = <<240>>

\* the bulk write of a system-exclusive message was refused
C8_Witness ==
    /\ body = "SystemExclusiveMessage"
    /\ written = "Err"
    /\ Len(writer.log) = 2
    /\ writer.buf = <<240>>

\* the third append of a note-on was refused
C8_WitnessMidi ==
    /\ message.type = "NoteOn"
    /\ written = "Err"
    /\ Len(writer.log) = 3
    /\ Len(writer.buf) = 2

\* C9: the bytes written for any MidiMessage are 1 to 3 bytes, a status
\* byte then data bytes; status + channel stays within 8 bits, keeps the
\* upper nibble of the status and puts the channel in the lower one; the
\* quarter frame byte is below 0x80 and determines its type and value.
C9_WrittenBytesAreRawValid ==
    (body = "RawMidiMessage" /\ written = "Ok") =>
        LET b == writer.buf
        IN  /\ RawValid(b)
            /\ message.type \in ChannelVoice =>
                   /\ ChannelStatus(message.type) + message.channel <= 255
                   /\ b[1] \div 16 = ChannelStatus(message.type) \div 16
                   /\ b[1] % 16 = message.channel
            /\ message.type = "TimeCodeQuarterFrame" =>
                   /\ b[2] < 128
                   /\ b[2] \div 16 = message.message_type
                   /\ b[2] % 16 = message.value

\* the largest quarter frame was written
C9_Witness ==
    /\ message = [type |-> "TimeCodeQuarterFrame", message_type |-> 7, value |-> 15]
    /\ written = "Ok"
    /\ writer.buf = <<241, 127>>

(* ========================= writing, then reading ======================== *)
\* C4: a channel-voice message written into a frame with room and read back
\* with create_ref and interpret is accepted and gives the message written.
C4_ChannelVoiceRoundTrip ==
    (body = "RawMidiMessage" /\ message.type \in ChannelVoice) =>
        /\ (written # "none" /\ writer.cap >= 3) => written = "Ok"
        /\ raw_ref # "none" => raw_ref = "Ok"
        /\ interpreted # NoMessage => interpreted = message

\* C6: reading a slice gives a message only when byte 0 is in the status
\* table and the length is that status's length; any other slice gives a
\* failure value, from create_ref or from interpret.
C6_DecodeRejectsWithFailureValue ==
    (raw_data # {} /\ raw_ref # "none") =>
        LET matched == Slice # <<>> /\ Arity(Slice[1]) = Len(Slice)
        IN  /\ interpreted \notin {NoMessage, TryFromError} => matched
            /\ ~matched =>
                   \/ raw_ref = "Err"
                   \/ raw_ref = "Ok" /\ interpreted \in {NoMessage, TryFromError}

=============================================================================
